---- MODULE Spec2Model ----
(***************************************************************************)
(* A model of gimbo.py: the merge of several *.alfredsnippets archives     *)
(* into one collection.  Strings are TLA+ strings; a character is a string *)
(* of length one, read with SubSeq.                                        *)
(***************************************************************************)
EXTENDS Bags, FiniteSets, Integers, Sequences, TLC

VARIABLES
    pc,                   \* position of main(), or the phase of a sampled check
    here,                 \* HERE: archive file name -> archive
    workspace,            \* WORKSPACE: directory name -> directory
    todo,                 \* archives HERE.glob has not yielded yet
    cur,                  \* the archive being processed ("" when none)
    paths,                \* snippet_paths still to process in cur
    SNIPPETS_BY_KEYWORD,  \* keyword -> the Snippets of its list, as a bag
    SNIPPETS_BY_NAME,     \* name -> the Snippets of its list, as a bag
    collections,          \* list(WORKSPACE.iterdir()) of the aggregator
    err,                  \* the exception that ended the run ("" when none)
    finalWritten,         \* the final archive was written by this run
    log,                  \* history: every call of tweak_snippet so far
    sample,               \* sampled inputs of a pure function
    result                \* what the function returned for them

vars == <<pc, here, workspace, todo, cur, paths, SNIPPETS_BY_KEYWORD,
          SNIPPETS_BY_NAME, collections, err, finalWritten, log, sample, result>>

(***************************************************************************)
(* Bounds of the model.                                                    *)
(***************************************************************************)
MaxArchives == 2      \* archives in HERE at the start of a run
MaxKeywordLen == 3    \* length of a sampled keyword
MaxNamePieces == 2    \* pieces a sampled name is built from
MaxLabelPieces == 3   \* pieces a sampled collection name is built from

(***************************************************************************)
(* Strings.                                                                *)
(***************************************************************************)
NL == "\n"

CharAt(s, i) == SubSeq(s, i, i)

StartsAt(s, p, i) == /\ i + Len(p) - 1 <= Len(s)
                     /\ SubSeq(s, i, i + Len(p) - 1) = p

StartsWith(s, p) == StartsAt(s, p, 1)

EndsWith(s, p) == Len(p) <= Len(s) /\ StartsAt(s, p, Len(s) - Len(p) + 1)

HasChar(s, c) == \E i \in 1..Len(s) : CharAt(s, i) = c

\* str.replace(old, ""): every non-overlapping occurrence, scanning from the left.
RECURSIVE RemoveAllFrom(_, _, _)
RemoveAllFrom(s, old, i) ==
    IF i > Len(s) THEN ""
    ELSE IF StartsAt(s, old, i) THEN RemoveAllFrom(s, old, i + Len(old))
    ELSE CharAt(s, i) \o RemoveAllFrom(s, old, i + 1)

RemoveAll(s, old) == RemoveAllFrom(s, old, 1)

\* str.split(sep) for a one-character sep: the list of fields.
RECURSIVE SplitFrom(_, _, _, _)
SplitFrom(s, sep, i, field) ==
    IF i > Len(s) THEN <<field>>
    ELSE IF CharAt(s, i) = sep THEN <<field>> \o SplitFrom(s, sep, i + 1, "")
    ELSE SplitFrom(s, sep, i + 1, field \o CharAt(s, i))

Split(s, sep) == SplitFrom(s, sep, 1, "")

\* All strings over alphabet of length at most n.
RECURSIVE StringsUpTo(_, _)
StringsUpTo(alphabet, n) ==
    IF n = 0 THEN {""}
    ELSE LET shorter == StringsUpTo(alphabet, n - 1)
         IN  shorter \cup {s \o c : s \in shorter, c \in alphabet}

(***************************************************************************)
(* Configuration (gimbo.py 61-117).                                        *)
(***************************************************************************)
FINAL_COLLECTION_NAME == "Gimbo Big Emoji Collection.alfredsnippets"

COLLECTION_IGNORES == <<"^Arrows.alfredsnippets$",
                        "^" \o FINAL_COLLECTION_NAME \o "$">>

COMMON_PREFIX == ":"
COMMON_SUFFIX == ":"
ICON_PATH == "gimbo_icon.png"

SNIPPET_ACTIONS ==
    (<<"[Emoji] Activity.alfredsnippets", "DB104057-67D9-464E-87A7-E5C6A5C9E83F">> :> "remove") @@
    (<<"[Emoji] Activity.alfredsnippets", "2CB14D66-8A2C-490E-B5BC-497C719BDE0D">> :> "remove") @@
    (<<"[Emoji] Activity.alfredsnippets", "73D962B3-0883-46DB-BF17-7886E0E0D6BE">> :> "remove") @@
    (<<"[Emoji] Aliases.alfredsnippets", "1EFA2E1A-FC94-4E9E-8CA6-CCD9881F8EDB">> :> "remove") @@
    (<<"[Emoji] Aliases.alfredsnippets", "382C5551-7790-438B-B0DD-7D5085AE7562">> :> "remove") @@
    (<<"[Emoji] Aliases.alfredsnippets", "F5246F75-8B74-4A1C-A546-EA13B904CB80">> :> "remove") @@
    (<<"[Emoji] Food and Drink.alfredsnippets", "21C550E1-8B7C-4C41-91FB-6A8FB11805DB">> :> "remove") @@
    (<<"[Emoji] Food and Drink.alfredsnippets", "A7D1C140-433A-4CB5-9D08-0E039673A514">> :> "remove") @@
    (<<"[Emoji] Objects.alfredsnippets", "E5539CBF-8C94-4E63-A76F-28F5BB9A778D">> :> "remove") @@
    (<<"[Emoji] Symbols.alfredsnippets", "E7A892D4-EC10-4CEB-8FA4-DF406E69C24A">> :> "remove") @@
    (<<"[Emoji] Symbols.alfredsnippets", "746F2037-7C6A-4C6D-95B7-3E202A2EFD2B">> :> "remove") @@
    (<<"[Emoji] Travel and Places.alfredsnippets", "E7AFDB70-D184-4550-9DAF-AFC7F17AA1E2">> :> "remove") @@
    (<<"[Emoji] Aliases.alfredsnippets", "7BBB3467-E963-4563-A24F-5ADB2A7134E3">> :> "rename:space-invader:Space Invader") @@
    (<<"[Emoji] Aliases.alfredsnippets", "4E959109-F9A1-471A-BE3E-E9F2FB91B923">> :> "rename:ng:No Good (block)") @@
    (<<"[Emoji] Weather.alfredsnippets", "17D5AB5B-7EE4-44AF-BDC6-52A1B0330DF7">> :> "rename:shoting-star-block:Shooting Star (block)")

\* Python's None.
None == "None"

\* SNIPPET_ACTIONS.get((collection, uid))
ActionFor(collection, uid) ==
    IF <<collection, uid>> \in DOMAIN SNIPPET_ACTIONS
    THEN SNIPPET_ACTIONS[<<collection, uid>>]
    ELSE None

(***************************************************************************)
(* tweak_snippet (gimbo.py 179-192).                                       *)
(***************************************************************************)
\* re.sub(r'^:(.+):$', r'\1', keyword).  Without re.MULTILINE ^ matches at the
\* start only and $ at the end or just before a final line break; . matches
\* no line break.  The match, when there is one, is the keyword up to its
\* closing ':', and is replaced by what lies between the two delimiters.
StripKeywordLax(keyword) ==
    LET n == Len(keyword)
        close == IF n >= 1 /\ CharAt(keyword, n) = NL THEN n - 1 ELSE n
    IN  IF /\ close >= 2
           /\ CharAt(keyword, 1) = ":"
           /\ CharAt(keyword, close) = ":"
           /\ ~HasChar(SubSeq(keyword, 2, close - 1), NL)
        THEN SubSeq(keyword, 2, close - 1) \o SubSeq(keyword, close + 1, n)
        ELSE keyword

StripKeyword(keyword) ==
    LET n == Len(keyword)
        close == IF n >= 1 /\ CharAt(keyword, n) = NL THEN n - 1 ELSE n
    IN  IF /\ close >= 3
           /\ CharAt(keyword, 1) = ":"
           /\ CharAt(keyword, close) = ":"
           /\ ~HasChar(SubSeq(keyword, 2, close - 1), NL)
        THEN SubSeq(keyword, 2, close - 1) \o SubSeq(keyword, close + 1, n)
        ELSE keyword

\* action[7:].split(':'), unpacked into (keyword, name).
RenamePartsSwapped(action) ==
    LET parts == Split(SubSeq(action, 8, Len(action)), ":")
    IN  <<parts[2], parts[1]>>

RenameParts(action) == Split(SubSeq(action, 8, Len(action)), ":")

\* snippet.collection.replace('[Emoji] ', '').replace('.alfredsnippets', '')
CollectionLabelSliced(collection) ==
    RemoveAll(SubSeq(collection, 9, Len(collection)), ".alfredsnippets")

CollectionLabel(collection) ==
    RemoveAll(RemoveAll(collection, "[Emoji] "), ".alfredsnippets")

\* f'Emoji | {collection} | {snippet.name} | {snippet.keyword}'
DisplayNameNoKeyword(label, name, keyword) ==
    "Emoji | " \o label \o " | " \o name

DisplayName(label, name, keyword) ==
    "Emoji | " \o label \o " | " \o name \o " | " \o keyword

\* defaultdict(list)[key].append(value).  A list is kept as the bag of its
\* elements: the order of a list is the order in which glob yields the files,
\* and nothing reads it but the order of the report's lines.
AppendTo(index, key, value) ==
    IF key \in DOMAIN index
    THEN [index EXCEPT ![key] = @ (+) SetToBag({value})]
    ELSE index @@ (key :> SetToBag({value}))

\* The snippet after the keyword strip and the rule (lines 181-187).
AfterRule(snippet) ==
    LET stripped == [snippet EXCEPT !.keyword = StripKeyword(snippet.keyword)]
        action == ActionFor(stripped.collection, stripped.uid)
    IN  IF action # None /\ action # "remove" /\ StartsWith(action, "rename:")
        THEN [stripped EXCEPT !.keyword = RenameParts(action)[1],
                              !.name = RenameParts(action)[2]]
        ELSE stripped

\* The snippet as returned (lines 190-192).
Rewritten(ruled) ==
    [ruled EXCEPT !.name = DisplayName(CollectionLabel(ruled.collection),
                                       ruled.name, ruled.keyword)]

\* tweak_snippet registering the snippet under its rewritten name.
TweakSnippetLateRegister(snippet, byKeyword, byName) ==
    LET ruled == AfterRule(snippet)
        final == Rewritten(ruled)
    IN  IF ActionFor(snippet.collection, snippet.uid) = "remove"
        THEN [none |-> TRUE, ret |-> snippet,
              byKeyword |-> byKeyword, byName |-> byName]
        ELSE [none |-> FALSE, ret |-> final,
              byKeyword |-> AppendTo(byKeyword, final.keyword, final),
              byName |-> AppendTo(byName, final.name, final)]

\* tweak_snippet registering the snippet before the rule is looked at.
TweakSnippetEarlyRegister(snippet, byKeyword, byName) ==
    LET ruled == AfterRule(snippet)
        final == Rewritten(ruled)
    IN  [none |-> ActionFor(snippet.collection, snippet.uid) = "remove",
         ret |-> final,
         byKeyword |-> AppendTo(byKeyword, ruled.keyword, final),
         byName |-> AppendTo(byName, ruled.name, final)]

\* tweak_snippet: what it returns (none: it returned None, else ret) and the
\* two indexes after it.  The lists hold the Snippet object itself, so an
\* entry shows the rewritten name.
TweakSnippet(snippet, byKeyword, byName) ==
    LET ruled == AfterRule(snippet)
        final == Rewritten(ruled)
    IN  IF ActionFor(snippet.collection, snippet.uid) = "remove"
        THEN [none |-> TRUE, ret |-> snippet,
              byKeyword |-> byKeyword, byName |-> byName]
        ELSE [none |-> FALSE, ret |-> final,
              byKeyword |-> AppendTo(byKeyword, ruled.keyword, final),
              byName |-> AppendTo(byName, ruled.name, final)]

(***************************************************************************)
(* Files.  An archive and a directory hold the same things: snippet files  *)
(* (.json), info.plist and icon.png.  A snippet file carries, beside its   *)
(* JSON fields, the name of the archive it was extracted from (origin): a  *)
(* history tag that no operation reads.  info.plist is its list of         *)
(* <key>/<string> entries in file order; <<>> stands for no info.plist.    *)
(***************************************************************************)
EmptyDir == [json |-> {}, plist |-> <<>>, icon |-> FALSE]

FileNames(dir) == {f.fname : f \in dir.json}

\* HERE.glob('*.alfredsnippets')
Glob(names) == {n \in names : EndsWith(n, ".alfredsnippets")}

\* re.match(pattern, name) for a pattern of literals, '.', '^' and '$'.
RECURSIVE MatchFrom(_, _, _, _)
MatchFrom(pattern, i, name, j) ==
    IF i > Len(pattern) THEN TRUE
    ELSE IF CharAt(pattern, i) = "^"
         THEN j = 1 /\ MatchFrom(pattern, i + 1, name, j)
    ELSE IF CharAt(pattern, i) = "$"
         THEN /\ \/ j = Len(name) + 1
                 \/ j = Len(name) /\ CharAt(name, j) = NL
              /\ MatchFrom(pattern, i + 1, name, j)
    ELSE IF CharAt(pattern, i) = "."
         THEN /\ j <= Len(name)
              /\ CharAt(name, j) # NL
              /\ MatchFrom(pattern, i + 1, name, j + 1)
    ELSE /\ j <= Len(name)
         /\ CharAt(name, j) = CharAt(pattern, i)
         /\ MatchFrom(pattern, i + 1, name, j + 1)

ReMatch(pattern, name) == MatchFrom(pattern, 1, name, 1)

\* should_be_ignored that skips nothing.
IgnoreNothing(name) == FALSE

\* should_be_ignored (gimbo.py 139-143)
should_be_ignored(name) ==
    \E i \in DOMAIN COLLECTION_IGNORES : ReMatch(COLLECTION_IGNORES[i], name)

\* Snippet.from_json(snippet_path.read_text(), collection=snippet_path.parent.name)
from_json(file, collection) ==
    [collection |-> collection, snippet |-> file.snippet, uid |-> file.uid,
     name |-> file.name, keyword |-> file.keyword]

\* snippet_path.write_text(tweaked_snippet.to_json())
to_json(file, snippet) ==
    [file EXCEPT !.snippet = snippet.snippet, !.uid = snippet.uid,
                 !.name = snippet.name, !.keyword = snippet.keyword]

\* tweak_info_plist (gimbo.py 221-235): the pattern is the prefix key with an
\* empty string directly followed by the suffix key with an empty string;
\* re.sub returns the text as it is when the pattern is nowhere in it.
tweak_info_plist(plist, prefix, suffix) ==
    LET MatchAt(i) == /\ i \in DOMAIN plist
                      /\ i + 1 \in DOMAIN plist
                      /\ plist[i] = [key |-> "snippetkeywordprefix", string |-> ""]
                      /\ plist[i + 1] = [key |-> "snippetkeywordsuffix", string |-> ""]
    IN  [i \in DOMAIN plist |->
            IF MatchAt(i) THEN [plist[i] EXCEPT !.string = prefix]
            ELSE IF MatchAt(i - 1) THEN [plist[i] EXCEPT !.string = suffix]
            ELSE plist[i]]

\* report_on_keyword_clashes / report_on_name_clashes (gimbo.py 243-264): the
\* keys the report lists.
Clashes(index) == {k \in DOMAIN index : BagCardinality(index[k]) > 1}

(***************************************************************************)
(* The inputs of a run.                                                    *)
(***************************************************************************)
\* The snippet files an archive may hold.  Their uids have a rule in the
\* archive "[Emoji] Aliases.alfredsnippets" (remove, rename) and none in any
\* other, where the two end up with one display name.
CatalogFiles == {
    [fname |-> "coffee.json", snippet |-> "hot beverage",
     uid |-> "1EFA2E1A-FC94-4E9E-8CA6-CCD9881F8EDB",
     name |-> "Coffee", keyword |-> ":coffee:"],
    [fname |-> "java.json", snippet |-> "hot beverage",
     uid |-> "7BBB3467-E963-4563-A24F-5ADB2A7134E3",
     name |-> "Coffee", keyword |-> ":coffee:"] }

ManifestOk == <<[key |-> "snippetkeywordprefix", string |-> ""],
                [key |-> "snippetkeywordsuffix", string |-> ""]>>

ManifestSwapped == <<[key |-> "snippetkeywordsuffix", string |-> ""],
                     [key |-> "snippetkeywordprefix", string |-> ""]>>

ManifestSamples == {ManifestOk, ManifestSwapped}

SampleArchives ==
    {[json |-> files, plist |-> m, icon |-> TRUE] :
        files \in SUBSET CatalogFiles, m \in ManifestSamples}

\* Archive names that the run must leave alone, with what they hold.
LeftoverNames == {"Arrows.alfredsnippets", FINAL_COLLECTION_NAME}

LeftoverArchive ==
    [json |-> {f \in CatalogFiles : f.fname = "coffee.json"},
     plist |-> ManifestOk, icon |-> TRUE]

ArchiveNames == LeftoverNames \cup {"[Emoji] Aliases.alfredsnippets",
                                    "[Emoji] A.alfredsnippets",
                                    "[Emoji] B.alfredsnippets",
                                    "A.alfredsnippets"}

\* What else lies in HERE: not archives.
RepoFiles == [n \in {"gimbo.py", ICON_PATH} |-> EmptyDir]

Worlds ==
    UNION {{RepoFiles @@ f :
              f \in {g \in [S -> SampleArchives \cup {LeftoverArchive}] :
                       \A n \in S : (n \in LeftoverNames) <=> (g[n] = LeftoverArchive)}} :
           S \in {T \in SUBSET ArchiveNames : Cardinality(T) <= MaxArchives}}

\* A workspace left by an earlier run.
StaleWorkspace ==
    ("[Emoji] A.alfredsnippets" :> [json |-> {}, plist |-> <<>>, icon |-> TRUE])

Perms(S) ==
    {p \in [1..Cardinality(S) -> S] : \A i, j \in DOMAIN p : i # j => p[i] # p[j]}

(***************************************************************************)
(* main (gimbo.py 124-136).                                                *)
(***************************************************************************)
Idle == /\ sample = <<>>
        /\ result = <<>>

Init == /\ pc = "start"
        /\ here \in Worlds
        /\ workspace \in {<<>>, StaleWorkspace}
        /\ todo = {}
        /\ cur = ""
        /\ paths = {}
        /\ SNIPPETS_BY_KEYWORD = <<>>
        /\ SNIPPETS_BY_NAME = <<>>
        /\ collections = <<>>
        /\ err = ""
        /\ finalWritten = FALSE
        /\ log = {}
        /\ Idle

\* Lines 125-129: wipe the workspace, make it anew, start the glob.
Wipe == /\ pc = "start"
        /\ workspace' = <<>>
        /\ todo' = Glob(DOMAIN here)
        /\ pc' = "glob"
        /\ UNCHANGED <<here, cur, paths, SNIPPETS_BY_KEYWORD, SNIPPETS_BY_NAME,
                       collections, err, finalWritten, log, sample, result>>

\* Lines 130-131: an ignored archive is passed over.
Skip == /\ pc = "glob"
        /\ \E n \in todo :
              /\ should_be_ignored(n)
              /\ todo' = todo \ {n}
        /\ UNCHANGED <<pc, here, workspace, cur, paths, SNIPPETS_BY_KEYWORD,
                       SNIPPETS_BY_NAME, collections, err, finalWritten, log,
                       sample, result>>

\* tweak_snippetfile up to the snippet loop (lines 146-159): dest.mkdir(),
\* extractall, the list of *.json paths.
Extract ==
    /\ pc = "glob"
    /\ \E n \in todo :
          /\ ~should_be_ignored(n)
          /\ todo' = todo \ {n}
          /\ IF n \in DOMAIN workspace
             THEN /\ err' = "FileExistsError"
                  /\ pc' = "aborted"
                  /\ UNCHANGED <<workspace, cur, paths>>
             ELSE LET dir == [json |-> {[fname |-> f.fname, origin |-> n,
                                         snippet |-> f.snippet, uid |-> f.uid,
                                         name |-> f.name, keyword |-> f.keyword] :
                                            f \in here[n].json},
                              plist |-> here[n].plist,
                              icon |-> here[n].icon]
                  IN  /\ workspace' = workspace @@ (n :> dir)
                      /\ paths' = FileNames(dir)
                      /\ cur' = IF dir.json = {} THEN "" ELSE n
                      /\ pc' = IF dir.json = {} THEN "glob" ELSE "process"
                      /\ err' = err
    /\ UNCHANGED <<here, SNIPPETS_BY_KEYWORD, SNIPPETS_BY_NAME, collections,
                   finalWritten, log, sample, result>>

\* process_snippet (lines 164-176) for the next path of the loop of line 160.
ProcessSnippet ==
    /\ pc = "process"
    /\ \E p \in paths :
          LET file == CHOOSE f \in workspace[cur].json : f.fname = p
              snippet == from_json(file, cur)
              t == TweakSnippet(snippet, SNIPPETS_BY_KEYWORD, SNIPPETS_BY_NAME)
              json == IF t.none
                      THEN workspace[cur].json \ {file}
                      ELSE (workspace[cur].json \ {file}) \cup {to_json(file, t.ret)}
          IN  /\ workspace' = [workspace EXCEPT ![cur].json = json]
              /\ SNIPPETS_BY_KEYWORD' = t.byKeyword
              /\ SNIPPETS_BY_NAME' = t.byName
              /\ log' = log \cup {[in |-> snippet, fname |-> p,
                                     none |-> t.none, out |-> t.ret]}
              /\ paths' = paths \ {p}
              /\ cur' = IF paths' = {} THEN "" ELSE cur
              /\ pc' = IF paths' = {} THEN "glob" ELSE "process"
    /\ UNCHANGED <<here, todo, collections, err, finalWritten, sample, result>>

\* Lines 198-200: the list of working directories, then final.mkdir().
Collect ==
    /\ pc = "glob"
    /\ todo = {}
    /\ \E order \in Perms(DOMAIN workspace) :
          /\ collections' = order
          /\ IF FINAL_COLLECTION_NAME \in DOMAIN workspace
             THEN /\ err' = "FileExistsError"
                  /\ pc' = "aborted"
                  /\ UNCHANGED workspace
             ELSE /\ workspace' = workspace @@ (FINAL_COLLECTION_NAME :> EmptyDir)
                  /\ pc' = "move"
                  /\ err' = err
    /\ UNCHANGED <<here, todo, cur, paths, SNIPPETS_BY_KEYWORD, SNIPPETS_BY_NAME,
                   finalWritten, log, sample, result>>

\* The working directory the loop of line 201 is in: the first of the list
\* that still holds a snippet file.
Pending == {i \in DOMAIN collections : workspace[collections[i]].json # {}}

Current == collections[CHOOSE i \in Pending : \A j \in Pending : i <= j]

\* Lines 205-208 with the check of line 206 left out.
MoveOver(file) ==
    /\ workspace' = [workspace EXCEPT
          ![Current].json = @ \ {file},
          ![FINAL_COLLECTION_NAME].json =
              {g \in @ : g.fname # file.fname} \cup {file}]
    /\ UNCHANGED <<pc, err>>

\* Lines 205-208 for one snippet file.
Move(file) ==
    IF file.fname \in FileNames(workspace[FINAL_COLLECTION_NAME])
    THEN /\ err' = "ValueError"
         /\ pc' = "aborted"
         /\ UNCHANGED workspace
    ELSE /\ workspace' = [workspace EXCEPT
               ![Current].json = @ \ {file},
               ![FINAL_COLLECTION_NAME].json = @ \cup {file}]
         /\ UNCHANGED <<pc, err>>

MoveSnippet ==
    /\ pc = "move"
    /\ Pending # {}
    /\ \E file \in workspace[Current].json : Move(file)
    /\ UNCHANGED <<here, todo, cur, paths, SNIPPETS_BY_KEYWORD, SNIPPETS_BY_NAME,
                   collections, finalWritten, log, sample, result>>

\* Lines 209-218: the icon, the manifest of collections[0], its patch, the zip.
Pack ==
    /\ pc = "move"
    /\ Pending = {}
    /\ IF collections = <<>>
       THEN /\ workspace' = [workspace EXCEPT ![FINAL_COLLECTION_NAME].icon = TRUE]
            /\ err' = "IndexError"
            /\ pc' = "aborted"
            /\ UNCHANGED <<here, finalWritten>>
       ELSE LET first == collections[1]
                plist == tweak_info_plist(workspace[first].plist,
                                          COMMON_PREFIX, COMMON_SUFFIX)
                final == [json |-> workspace[FINAL_COLLECTION_NAME].json,
                          plist |-> plist, icon |-> TRUE]
            IN  /\ workspace' = [workspace EXCEPT ![first].plist = <<>>,
                                                  ![FINAL_COLLECTION_NAME] = final]
                /\ here' = [n \in DOMAIN here \cup {FINAL_COLLECTION_NAME} |->
                              IF n = FINAL_COLLECTION_NAME THEN final ELSE here[n]]
                /\ finalWritten' = TRUE
                /\ pc' = "report"
                /\ err' = err
    /\ UNCHANGED <<todo, cur, paths, SNIPPETS_BY_KEYWORD, SNIPPETS_BY_NAME,
                   collections, log, sample, result>>

\* report_on_clashes (line 136): prints, changes nothing.
Report ==
    /\ pc = "report"
    /\ pc' = "done"
    /\ UNCHANGED <<here, workspace, todo, cur, paths, SNIPPETS_BY_KEYWORD,
                   SNIPPETS_BY_NAME, collections, err, finalWritten, log,
                   sample, result>>

Next == \/ Wipe
        \/ Skip
        \/ Extract
        \/ ProcessSnippet
        \/ Collect
        \/ MoveSnippet
        \/ Pack
        \/ Report

Spec == Init /\ [][Next]_vars

(***************************************************************************)
(* tweak_snippet and the label derivation on sampled inputs.               *)
(***************************************************************************)
NoRun == /\ here = <<>>
         /\ workspace = <<>>
         /\ todo = {}
         /\ cur = ""
         /\ paths = {}
         /\ collections = <<>>
         /\ err = ""
         /\ finalWritten = FALSE
         /\ log = {}

\* The concatenations of at most n of the pieces.
RECURSIVE Concats(_, _)
Concats(pieces, n) ==
    IF n = 0 THEN {""}
    ELSE LET shorter == Concats(pieces, n - 1)
         IN  shorter \cup {s \o p : s \in shorter, p \in pieces}

RuleUids == {"7BBB3467-E963-4563-A24F-5ADB2A7134E3",
             "4E959109-F9A1-471A-BE3E-E9F2FB91B923",
             "17D5AB5B-7EE4-44AF-BDC6-52A1B0330DF7",
             "1EFA2E1A-FC94-4E9E-8CA6-CCD9881F8EDB"}

KeywordSamples ==
    [collection : {"[Emoji] Aliases.alfredsnippets", "[Emoji] Weather.alfredsnippets",
                   "[Emoji] A.alfredsnippets"},
     snippet : {"x"},
     uid : RuleUids \cup {"00000000-0000-4000-8000-000000000001"},
     name : {"Coffee", "a | b"},
     keyword : StringsUpTo({":", "a", NL}, MaxKeywordLen)]

\* Snippets without a rule, and one of "[Emoji] Aliases.alfredsnippets": the
\* renamed one (first) or one that has the name and keyword of the rename.
NameSamples(first) ==
    [collection : {"[Emoji] A.alfredsnippets", "A.alfredsnippets",
                   "[Emoji] A | a.alfredsnippets"},
     snippet : {"x"},
     uid : {IF first THEN "00000000-0000-4000-8000-000000000001"
                     ELSE "00000000-0000-4000-8000-000000000002"},
     name : Concats({"a", " | "}, MaxNamePieces),
     keyword : {"a", "b", "a | a", ":a:"}]
    \cup
    {[collection |-> "[Emoji] Aliases.alfredsnippets", snippet |-> "x",
      uid |-> IF first THEN "7BBB3467-E963-4563-A24F-5ADB2A7134E3"
                       ELSE "00000000-0000-4000-8000-000000000002",
      name |-> IF first THEN "Video Game" ELSE "Space Invader",
      keyword |-> IF first THEN ":video-game:" ELSE ":space-invader:"]}

LabelSamples ==
    Concats({"[Emo", "ji] ", "[Emoji] ", ".alfred", "snippets", ".alfredsnippets", "A"},
            MaxLabelPieces)

InitKeyword ==
    /\ pc = "sample"
    /\ \E s \in KeywordSamples : sample = <<s>>
    /\ result = <<>>
    /\ SNIPPETS_BY_KEYWORD = <<>>
    /\ SNIPPETS_BY_NAME = <<>>
    /\ NoRun

InitNames ==
    /\ pc = "sample"
    /\ \E a \in NameSamples(TRUE), b \in NameSamples(FALSE) : sample = <<a, b>>
    /\ result = <<>>
    /\ SNIPPETS_BY_KEYWORD = <<>>
    /\ SNIPPETS_BY_NAME = <<>>
    /\ NoRun

InitLabel ==
    /\ pc = "label"
    /\ \E s \in LabelSamples : sample = <<s>>
    /\ result = <<>>
    /\ SNIPPETS_BY_KEYWORD = <<>>
    /\ SNIPPETS_BY_NAME = <<>>
    /\ NoRun

\* tweak_snippet on the next sampled snippet.
TweakSample ==
    /\ pc = "sample"
    /\ LET t == TweakSnippet(sample[Len(result) + 1],
                             SNIPPETS_BY_KEYWORD, SNIPPETS_BY_NAME)
       IN  /\ result' = Append(result, [none |-> t.none, ret |-> t.ret])
           /\ SNIPPETS_BY_KEYWORD' = t.byKeyword
           /\ SNIPPETS_BY_NAME' = t.byName
    /\ pc' = IF Len(result') = Len(sample) THEN "tweaked" ELSE "sample"
    /\ UNCHANGED <<here, workspace, todo, cur, paths, collections, err,
                   finalWritten, log, sample>>

\* The label derivation of line 190, on the sampled name and then on its label.
ApplyLabel ==
    /\ pc = "label"
    /\ result' = Append(result, CollectionLabel(IF result = <<>> THEN sample[1]
                                                ELSE result[Len(result)]))
    /\ pc' = IF Len(result') = 2 THEN "labelled" ELSE "label"
    /\ UNCHANGED <<here, workspace, todo, cur, paths, SNIPPETS_BY_KEYWORD,
                   SNIPPETS_BY_NAME, collections, err, finalWritten, log, sample>>

SpecKeyword == InitKeyword /\ [][TweakSample]_vars

SpecNames == InitNames /\ [][TweakSample]_vars

SpecLabel == InitLabel /\ [][ApplyLabel]_vars

(***************************************************************************)
(* What the properties are stated with.                                    *)
(***************************************************************************)
\* The rules of the table, as the rule table's comments read them.
RemoveKeys == {k \in DOMAIN SNIPPET_ACTIONS : SNIPPET_ACTIONS[k] = "remove"}

ExpectedRenames ==
    {[collection |-> "[Emoji] Aliases.alfredsnippets",
      uid |-> "7BBB3467-E963-4563-A24F-5ADB2A7134E3",
      keyword |-> "space-invader", name |-> "Space Invader", label |-> "Aliases"],
     [collection |-> "[Emoji] Aliases.alfredsnippets",
      uid |-> "4E959109-F9A1-471A-BE3E-E9F2FB91B923",
      keyword |-> "ng", name |-> "No Good (block)", label |-> "Aliases"],
     [collection |-> "[Emoji] Weather.alfredsnippets",
      uid |-> "17D5AB5B-7EE4-44AF-BDC6-52A1B0330DF7",
      keyword |-> "shoting-star-block", name |-> "Shooting Star (block)",
      label |-> "Weather"]}

RenameOf(snippet) ==
    {r \in ExpectedRenames : r.collection = snippet.collection /\ r.uid = snippet.uid}

HasRule(snippet) == <<snippet.collection, snippet.uid>> \in DOMAIN SNIPPET_ACTIONS

\* The name of a snippet after its rule and before the display-name rewrite.
PreRewriteName(snippet) ==
    IF RenameOf(snippet) # {} THEN (CHOOSE r \in RenameOf(snippet) : TRUE).name
    ELSE snippet.name

\* A collection name with the prefix marker taken from its front and the
\* suffix extension from its end.
Stripped(collection) ==
    LET front == IF StartsWith(collection, "[Emoji] ")
                 THEN SubSeq(collection, 9, Len(collection)) ELSE collection
    IN  IF EndsWith(front, ".alfredsnippets")
        THEN SubSeq(front, 1, Len(front) - 15) ELSE front

Template(label, name, keyword) ==
    "Emoji | " \o label \o " | " \o name \o " | " \o keyword

\* The sampled snippets with what tweak_snippet returned for them.
Tweaked == {i \in DOMAIN result : pc \in {"sample", "tweaked"}}

\* The records the run has transformed and kept.
Survivors == {e \in log : ~e.none}

IndexEntries(index) == UNION {BagToSet(index[k]) : k \in DOMAIN index}

FinalDir == workspace[FINAL_COLLECTION_NAME]

\* The snippet files of directory dir that are the record of log entry e.
FilesOf(e, dir) ==
    {f \in dir.json : f.origin = e.in.collection /\ f.fname = e.fname /\ f.uid = e.in.uid}

LoopDone == pc \in {"move", "report", "done", "aborted"}

(***************************************************************************)
(* C1.  A record whose (collection, id) has a remove rule is never in the  *)
(* keyword index or the name index; once transformed its file is deleted   *)
(* from its working directory; it is never in the merged directory and not *)
(* among the items of the final archive.                                   *)
(***************************************************************************)
C1_RemovedNowhere ==
    \A k \in RemoveKeys :
        /\ \A s \in IndexEntries(SNIPPETS_BY_KEYWORD) \cup IndexEntries(SNIPPETS_BY_NAME) :
              <<s.collection, s.uid>> # k
        /\ \A e \in log :
              <<e.in.collection, e.in.uid>> = k
                 => /\ e.none
                    /\ \A d \in DOMAIN workspace : FilesOf(e, workspace[d]) = {}
        /\ \A d \in DOMAIN workspace :
              d = FINAL_COLLECTION_NAME
                 => \A f \in workspace[d].json : <<f.origin, f.uid>> # k
        /\ finalWritten
              => \A f \in here[FINAL_COLLECTION_NAME].json : <<f.origin, f.uid>> # k

C1_Witness ==
    /\ pc = "done"
    /\ \E e \in log : <<e.in.collection, e.in.uid>> \in RemoveKeys
    /\ here[FINAL_COLLECTION_NAME].json # {}

(***************************************************************************)
(* C2.  For a record with a rename(k, n) rule tweak_snippet returns a      *)
(* record with keyword k and name "Emoji | " + label + " | " + n + " | "   *)
(* + k, whatever its keyword and name were.                                *)
(***************************************************************************)
C2_Rename ==
    \A i \in Tweaked :
        \A r \in RenameOf(sample[i]) :
            /\ ~result[i].none
            /\ result[i].ret.keyword = r.keyword
            /\ result[i].ret.name = Template(r.label, r.name, r.keyword)
            /\ r.label = Stripped(sample[i].collection)

C2_Witness ==
    /\ pc = "tweaked"
    /\ RenameOf(sample[1]) # {}
    /\ sample[1].keyword = ":a:"
    /\ sample[1].name = "a | b"
    /\ result[1].ret.name = "Emoji | Weather | Shooting Star (block) | shoting-star-block"

(***************************************************************************)
(* C3.  For a record without a rule: as first stated, the final keyword    *)
(* is the input keyword less its first and last character when it starts   *)
(* and ends with ':', and the input keyword otherwise (C3_Original).  As   *)
(* amended, the keyword ':' + x + ':' with x not empty and free of line    *)
(* breaks becomes x, ':' + x + ':' + line break becomes x + line break,    *)
(* and every other keyword, "::" and ":" among them, stays as it is.  The  *)
(* final name is "Emoji | " + label + " | " + input name + " | " + final   *)
(* keyword in both.                                                        *)
(***************************************************************************)
Wrapped(keyword) ==
    /\ Len(keyword) >= 3
    /\ StartsWith(keyword, ":")
    /\ EndsWith(keyword, ":")
    /\ ~HasChar(SubSeq(keyword, 2, Len(keyword) - 1), NL)

C3_Keyword(keyword) ==
    IF Wrapped(keyword) THEN SubSeq(keyword, 2, Len(keyword) - 1)
    ELSE IF EndsWith(keyword, NL) /\ Wrapped(SubSeq(keyword, 1, Len(keyword) - 1))
         THEN SubSeq(keyword, 2, Len(keyword) - 2) \o NL
    ELSE keyword

SameDisplay(e1, e2) == e1 # e2 /\ e1.out.name = e2.out.name

C4_Original ==
    \A e1, e2 \in Survivors : SameDisplay(e1, e2) => ~finalWritten

C4_Amended ==
    \A e1, e2 \in Survivors :
        SameDisplay(e1, e2)
           => /\ e1.fname = e2.fname
                 => /\ ~finalWritten
                    /\ pc \notin {"report", "done"}
                    /\ pc = "aborted" => err = "ValueError"
              /\ e1.fname # e2.fname /\ finalWritten
                 => \A e \in {e1, e2} :
                       \E f \in FilesOf(e, here[FINAL_COLLECTION_NAME]) :
                           f.name = e.out.name

C4_Witness ==
    /\ pc = "done"
    /\ finalWritten
    /\ \E e1, e2 \in Survivors :
          /\ SameDisplay(e1, e2)
          /\ FilesOf(e1, here[FINAL_COLLECTION_NAME]) # {}
          /\ FilesOf(e2, here[FINAL_COLLECTION_NAME]) # {}

(***************************************************************************)
(* C5.  When a surviving snippet file has the file name of one already in  *)
(* the merged directory the run aborts at that move: the file stays where  *)
(* it is, the one in the merged directory is the record that was moved     *)
(* there, the icon is not copied, no manifest is taken or patched and no   *)
(* final archive is written.  When no two surviving files share a file     *)
(* name the move loop ends with every surviving file in the merged         *)
(* directory under its own file name, and with nothing else there.         *)
(***************************************************************************)
SharedFileName == \E e1, e2 \in Survivors : e1 # e2 /\ e1.fname = e2.fname

MovesDone == \/ pc = "move" /\ Pending = {}
             \/ pc \in {"report", "done"}
             \/ pc = "aborted" /\ err # "ValueError"

C5_Collision ==
    /\ (pc = "aborted" /\ err = "ValueError")
          => /\ ~finalWritten
             /\ ~FinalDir.icon
             /\ FinalDir.plist = <<>>
             /\ \A i \in DOMAIN collections : workspace[collections[i]].plist # <<>>
             /\ \E i \in DOMAIN collections :
                   \E f \in workspace[collections[i]].json :
                      \E g \in FinalDir.json : g.fname = f.fname /\ g.origin # f.origin
             /\ \A g \in FinalDir.json :
                   \E e \in Survivors :
                      g \in FilesOf(e, FinalDir) /\ g.name = e.out.name
                         /\ g.keyword = e.out.keyword
    /\ (LoopDone /\ SharedFileName)
          => /\ ~MovesDone
             /\ ~finalWritten
    /\ (MovesDone /\ ~SharedFileName)
          => /\ \A e \in Survivors :
                   \E g \in FilesOf(e, FinalDir) :
                      g.name = e.out.name /\ g.keyword = e.out.keyword
             /\ Cardinality(FinalDir.json) = Cardinality(Survivors)
             /\ \A i \in DOMAIN collections : workspace[collections[i]].json = {}

C5_Witness ==
    /\ pc = "aborted"
    /\ err = "ValueError"
    /\ FinalDir.json # {}
    /\ \E i \in DOMAIN collections : Cardinality(workspace[collections[i]].json) = 2

(***************************************************************************)
(* C7.  A final archive is only ever written with a manifest whose prefix  *)
(* and suffix fields both hold the delimiter: a manifest without the       *)
(* expected pattern aborts the run.                                        *)
(***************************************************************************)
HoldsAffix(plist, key, value) ==
    \E i \in DOMAIN plist : plist[i] = [key |-> key, string |-> value]

C7_PatchedOrAborted ==
    finalWritten
       => /\ HoldsAffix(here[FINAL_COLLECTION_NAME].plist,
                        "snippetkeywordprefix", ":")
          /\ HoldsAffix(here[FINAL_COLLECTION_NAME].plist,
                        "snippetkeywordsuffix", ":")

(***************************************************************************)
(* C8.  An archive whose name matches an ignore pattern is never unpacked  *)
(* into the workspace, none of its records is transformed or entered in an *)
(* index, and none of its items is in the merged directory or the final    *)
(* archive; once the loop over the archives has ended every other archive  *)
(* has its working directory and all its records transformed.              *)
(***************************************************************************)
C8_Ignored ==
    /\ \A n \in LeftoverNames :
          /\ \A d \in DOMAIN workspace : \A f \in workspace[d].json : f.origin # n
          /\ n \in DOMAIN workspace => n = FINAL_COLLECTION_NAME /\ LoopDone
          /\ \A e \in log : e.in.collection # n
          /\ \A s \in IndexEntries(SNIPPETS_BY_KEYWORD) \cup IndexEntries(SNIPPETS_BY_NAME) :
                s.collection # n
          /\ finalWritten => \A f \in here[FINAL_COLLECTION_NAME].json : f.origin # n
    /\ LoopDone
          => \A n \in (DOMAIN here \cap ArchiveNames) \ LeftoverNames :
                /\ \E i \in DOMAIN collections : collections[i] = n
                /\ \A f \in here[n].json :
                      \E e \in log : e.in.collection = n /\ e.fname = f.fname

C8_Witness ==
    /\ pc = "done"
    /\ "Arrows.alfredsnippets" \in DOMAIN here
    /\ here["Arrows.alfredsnippets"].json # {}
    /\ log # {}

(***************************************************************************)
(* C10.  At every point of a run the keyword index lists under k exactly   *)
(* the surviving records with final keyword k, and the name index under n  *)
(* exactly the surviving records whose name after the rule and before the  *)
(* rewrite is n, each once and none under its rewritten name.  Two records *)
(* without a rule and with keyword ":coffee:", one of collection A and one *)
(* of collection B, are both listed under the clashing keyword "coffee",   *)
(* with the names "Emoji | A | ... | coffee" and "Emoji | B | ... |        *)
(* coffee".                                                                *)
(***************************************************************************)
C10_Indexes ==
    /\ DOMAIN SNIPPETS_BY_KEYWORD = {e.out.keyword : e \in Survivors}
    /\ \A k \in DOMAIN SNIPPETS_BY_KEYWORD :
          SNIPPETS_BY_KEYWORD[k] =
             SetToBag({e.out : e \in {x \in Survivors : x.out.keyword = k}})
    /\ DOMAIN SNIPPETS_BY_NAME = {PreRewriteName(e.in) : e \in Survivors}
    /\ \A n \in DOMAIN SNIPPETS_BY_NAME :
          SNIPPETS_BY_NAME[n] =
             SetToBag({e.out : e \in {x \in Survivors : PreRewriteName(x.in) = n}})
    /\ \A e \in Survivors :
          /\ e.out.name # PreRewriteName(e.in)
          /\ e.out.name \in DOMAIN SNIPPETS_BY_NAME
                => ~BagIn(e.out, SNIPPETS_BY_NAME[e.out.name])
    /\ \A e1, e2 \in log :
          /\ e1.in.collection = "[Emoji] A.alfredsnippets"
          /\ e2.in.collection = "[Emoji] B.alfredsnippets"
          /\ e1.in.keyword = ":coffee:"
          /\ e2.in.keyword = ":coffee:"
          => /\ "coffee" \in Clashes(SNIPPETS_BY_KEYWORD)
             /\ BagIn(e1.out, SNIPPETS_BY_KEYWORD["coffee"])
             /\ BagIn(e2.out, SNIPPETS_BY_KEYWORD["coffee"])
             /\ e1.out.name = "Emoji | A | " \o e1.in.name \o " | coffee"
             /\ e2.out.name = "Emoji | B | " \o e2.in.name \o " | coffee"
             /\ e1.out.name # e2.out.name

C10_Witness ==
    /\ pc = "done"
    /\ \E e1, e2 \in log :
          /\ e1.in.collection = "[Emoji] A.alfredsnippets"
          /\ e2.in.collection = "[Emoji] B.alfredsnippets"
          /\ e1.in.keyword = ":coffee:"
          /\ e2.in.keyword = ":coffee:"
          /\ BagCardinality(SNIPPETS_BY_KEYWORD["coffee"]) = 2

(***************************************************************************)
(* C6.  As first stated: two surviving records have equal final display    *)
(* names only if their (collection, name after the rule, final keyword)    *)
(* triples are equal (C6_Original).  As amended: when none of label, name  *)
(* after the rule and final keyword of either record holds a '|', equal    *)
(* final display names mean equal (label, name, keyword) triples, the      *)
(* label being the collection name with every occurrence of the prefix     *)
(* marker and of the suffix extension removed.                             *)
(***************************************************************************)
BothKept == pc = "tweaked" /\ Len(sample) = 2 /\ ~result[1].none /\ ~result[2].none

Parts(i) == <<CollectionLabel(sample[i].collection), PreRewriteName(sample[i]),
              result[i].ret.keyword>>

NoBar(i) == \A j \in 1..3 : ~HasChar(Parts(i)[j], "|")

C6_Original ==
    (BothKept /\ result[1].ret.name = result[2].ret.name)
       => <<sample[1].collection, PreRewriteName(sample[1]), result[1].ret.keyword>>
            = <<sample[2].collection, PreRewriteName(sample[2]), result[2].ret.keyword>>

C6_Amended ==
    (BothKept /\ NoBar(1) /\ NoBar(2) /\ result[1].ret.name = result[2].ret.name)
       => Parts(1) = Parts(2)

C6_Witness ==
    /\ BothKept
    /\ NoBar(1)
    /\ NoBar(2)
    /\ result[1].ret.name = result[2].ret.name
    /\ sample[1].collection # sample[2].collection
    /\ sample[1].keyword # sample[2].keyword

(***************************************************************************)
(* C9.  As first stated: the label of a label is that label, for every     *)
(* collection name (C9_Original).  As amended: this holds for a collection *)
(* name that holds the prefix marker nowhere but at its front and the      *)
(* suffix extension nowhere but at its end.                                *)
(***************************************************************************)
Occurrences(s, p) == {i \in 1..Len(s) : StartsAt(s, p, i)}

AffixesInPlace(s) ==
    /\ Occurrences(s, "[Emoji] ") \subseteq {1}
    /\ Occurrences(s, ".alfredsnippets") \subseteq {Len(s) - 14}

C9_Original == pc = "labelled" => result[2] = result[1]

C9_Amended ==
    (pc = "labelled" /\ AffixesInPlace(sample[1])) => result[2] = result[1]

C9_Witness ==
    /\ pc = "labelled"
    /\ sample[1] = "[Emoji] A.alfredsnippets"
    /\ result = <<"A", "A">>

====
